---- MODULE Spec2Model ----
(***************************************************************************)
(* Model of streamlit_app.py: the batched Open-Meteo fetch, the timestamp  *)
(* index with its default, the snapshot filter and the visual encoding.    *)
(*                                                                         *)
(* Conventions.  A timestamp string 'YYYY-MM-DDTHH:00' is the number of    *)
(* the hour it names; the wall clock is a number of minutes, so that       *)
(* strftime('%Y-%m-%dT%H:00') is the truncation to the hour.  Temperatures *)
(* are whole degrees Celsius.  Coordinates are in 1e-4 degrees.  A JSON    *)
(* field is a record [kind, val]: kind "absent" (the key is missing),      *)
(* "null" (present, not a list) or "list".  Positions are 0-based as in    *)
(* Python; TLA+ sequences are 1-based, hence the +1 at every subscript.    *)
(***************************************************************************)
EXTENDS Integers, Sequences, FiniteSets, TLC

\* Longest hourly.time / hourly.temperature_2m list of one response object.
MaxLen == 2

\* Temperatures of the encoder's inputs range over -TempSpan..TempSpan.
TempSpan == 30

\* The catalog: the first entries of the cities dict, in insertion order.
city_names == <<"Sapporo", "Aomori">>

lats == <<430618, 408244>>

lons == <<1413545, 1407400>>

NumCities == Len(city_names)

\* Hours the upstream may name in hourly.time.
Timestamps == {0, 1}

\* Temperatures the upstream may return in the fetch pipeline.
Temps == {-20, 5}

\* Values of datetime.now(), in minutes: first and last minute of each hour,
\* one hour past the forecast horizon included.
Clock == {h * 60 + m : h \in Timestamps \cup {2}, m \in {0, 59}}

TempRange == (0 - TempSpan)..TempSpan

NoTime == 0 - 1

Min(a, b) == IF a < b THEN a ELSE b

SeqUpTo(S, n) == UNION {[1..k -> S] : k \in 0..n}

Field(S) ==
    [kind : {"absent", "null"}, val : {<<>>}]
        \cup [kind : {"list"}, val : SeqUpTo(S, MaxLen)]

AbsentField == [kind |-> "absent", val |-> <<>>]

\* One element of the response: a per-point object.
CityData ==
    [hourly : {"absent"}, time : {AbsentField}, temperature_2m : {AbsentField}]
        \cup [hourly : {"present"}, time : Field(Timestamps),
              temperature_2m : Field(Temps)]

\* The parsed body: a bare object, or a list of `size` objects.
DataShapes ==
    [isList : {FALSE}, size : {1}]
        \cup [isList : {TRUE}, size : 0..(NumCities + 1)]

\* Variant: a bare object is not wrapped, so nothing is iterated.
DataListLenUnwrapped(d) == IF d.isList THEN d.size ELSE 0

\* data_list = data if isinstance(data, list) else [data]
DataListLen(d) == IF d.isList THEN d.size ELSE 1

\* city_data['hourly']['time'] / ['temperature_2m'] raise KeyError on a
\* missing key; zip() raises TypeError on an argument that is not iterable.
Raises(cd) ==
    \/ cd.hourly = "absent"
    \/ cd.time.kind # "list"
    \/ cd.temperature_2m.kind # "list"

\* zip(times, temps): stops at the shorter argument.
ZipLen(times, temps) == Min(Len(times), Len(temps))

\* The records the inner loop appends for data_list[idx].
PointRecords(idx, cd) ==
    [k \in 1..ZipLen(cd.time.val, cd.temperature_2m.val) |->
        [City |-> city_names[idx + 1],
         lat |-> lats[idx + 1],
         lon |-> lons[idx + 1],
         Time |-> cd.time.val[k],
         Temperature |-> cd.temperature_2m.val[k]]]

\* Variant: the except branch returns the records parsed so far.
ExceptResultPartial(records) == records

\* What the except branch returns: pd.DataFrame().
ExceptResult(records) == <<>>

TimeColumn(df) == [k \in 1..Len(df) |-> df[k].Time]

\* Variant: the distinct values in ascending order.
RECURSIVE UniqueSorted(_)
UniqueSorted(s) ==
    IF s = <<>>
    THEN <<>>
    ELSE LET vals == {s[k] : k \in 1..Len(s)}
             lo == CHOOSE v \in vals : \A w \in vals : v <= w
             IsRest(r) == r # lo
         IN  <<lo>> \o UniqueSorted(SelectSeq(s, IsRest))

\* Series.unique(): the distinct values in order of appearance.
RECURSIVE Unique(_)
Unique(s) ==
    IF s = <<>>
    THEN <<>>
    ELSE LET u == Unique(SubSeq(s, 1, Len(s) - 1))
             x == s[Len(s)]
         IN  IF \E k \in 1..Len(u) : u[k] = x THEN u ELSE Append(u, x)

\* datetime.now().strftime('%Y-%m-%dT%H:00')
Strftime(now) == now \div 60

\* Variant: the fallback is the last position instead of the first.
DefaultIndexLast(options, current) ==
    IF \E k \in 1..Len(options) : options[k] = current
    THEN (CHOOSE k \in 1..Len(options) :
              /\ options[k] = current
              /\ \A j \in 1..(k - 1) : options[j] # current) - 1
    ELSE Len(options) - 1

\* list(time_options).index(current) with the ValueError fallback.
DefaultIndex(options, current) ==
    IF \E k \in 1..Len(options) : options[k] = current
    THEN (CHOOSE k \in 1..Len(options) :
              /\ options[k] = current
              /\ \A j \in 1..(k - 1) : options[j] # current) - 1
    ELSE 0

\* Variant: the comparison is >= instead of ==.
SelectRowsFrom(df, t) ==
    LET Match(r) == r.Time >= t
    IN  SelectSeq(df, Match)

\* full_df[full_df['Time'] == selected_time]
SelectRows(df, t) ==
    LET Match(r) == r.Time = t
    IN  SelectSeq(df, Match)

\* Variant: the band boundaries are upper-inclusive.
get_color_inclusive(temp) ==
    IF temp <= 0 THEN <<0, 0, 255, 200>>
    ELSE IF temp <= 10 THEN <<0, 255, 255, 200>>
    ELSE IF temp <= 20 THEN <<0, 255, 0, 200>>
    ELSE IF temp <= 25 THEN <<255, 165, 0, 200>>
    ELSE <<255, 0, 0, 200>>

get_color(temp) ==
    IF temp < 0 THEN <<0, 0, 255, 200>>
    ELSE IF temp < 10 THEN <<0, 255, 255, 200>>
    ELSE IF temp < 20 THEN <<0, 255, 0, 200>>
    ELSE IF temp < 25 THEN <<255, 165, 0, 200>>
    ELSE <<255, 0, 0, 200>>

\* Variant: the offset is added after the scaling.
ElevationOffsetLast(temp) == temp * 2000 + 20

Elevation(temp) == (temp + 20) * 2000

\* The two derived columns added to the filtered frame.
Encode(df) ==
    [k \in 1..Len(df) |->
        [City |-> df[k].City,
         lat |-> df[k].lat,
         lon |-> df[k].lon,
         Time |-> df[k].Time,
         Temperature |-> df[k].Temperature,
         elevation |-> Elevation(df[k].Temperature),
         color |-> get_color(df[k].Temperature)]]

NoData == [isList |-> TRUE, size |-> 0]

NoCache == [valid |-> FALSE, value |-> <<>>]

VARIABLES
    pc,               \* position of the script run
    cache,            \* st.cache_data entry of fetch_forecast_data
    response,         \* outcome of requests.get / raise_for_status
    data,             \* shape of response.json()
    data_list,        \* the elements of data_list the loop has read so far
    i,                \* loop index of enumerate(data_list)
    all_records,      \* records appended so far
    fetch_error,      \* the except branch ran (st.error shown)
    full_df,          \* value returned to the caller
    time_options,
    now,              \* value of datetime.now()
    current_hour_iso,
    default_index,
    selected_time,
    df_filtered,
    page_error        \* the else branch of the caller ran

vars ==
    <<pc, cache, response, data, data_list, i, all_records, fetch_error,
      full_df, time_options, now, current_hour_iso, default_index,
      selected_time, df_filtered, page_error>>

fetchLocals == <<response, data, data_list, i, all_records>>

pageVars ==
    <<time_options, now, current_hour_iso, default_index, selected_time,
      df_filtered, page_error>>

Init ==
    /\ pc = "idle"
    /\ cache = NoCache
    /\ response = "none"
    /\ data = NoData
    /\ data_list = <<>>
    /\ i = 0
    /\ all_records = <<>>
    /\ fetch_error = FALSE
    /\ full_df = <<>>
    /\ time_options = <<>>
    /\ now = NoTime
    /\ current_hour_iso = NoTime
    /\ default_index = 0
    /\ selected_time = NoTime
    /\ df_filtered = <<>>
    /\ page_error = FALSE

\* The function returns through its except branch.
Fail ==
    /\ fetch_error' = TRUE
    /\ full_df' = ExceptResult(all_records)
    /\ cache' = [valid |-> TRUE, value |-> ExceptResult(all_records)]
    /\ pc' = "returned"

\* A cache hit: the function body does not run.
CachedFetch ==
    /\ pc = "idle"
    /\ cache.valid
    /\ full_df' = cache.value
    /\ pc' = "returned"
    /\ UNCHANGED <<cache, fetchLocals, fetch_error, pageVars>>

\* requests.get, raise_for_status, response.json() and the normalisation.
Request ==
    /\ pc = "idle"
    /\ ~cache.valid
    /\ \E outcome \in {"transport_error", "http_error", "ok"} :
         /\ response' = outcome
         /\ IF outcome = "ok"
            THEN /\ \E d \in DataShapes : data' = d
                 /\ pc' = "loop"
                 /\ UNCHANGED <<data_list, i, all_records, cache,
                                fetch_error, full_df>>
            ELSE /\ Fail
                 /\ UNCHANGED <<data, data_list, i, all_records>>
    /\ UNCHANGED pageVars

\* One iteration of `for i, city_data in enumerate(data_list)`.
LoopStep ==
    /\ pc = "loop"
    /\ i < DataListLen(data)
    /\ IF i >= NumCities
       THEN \* city_names[i] raises IndexError
            /\ Fail
            /\ UNCHANGED fetchLocals
       ELSE \E cd \in CityData :
              /\ data_list' = Append(data_list, cd)
              /\ IF Raises(cd)
                 THEN /\ Fail
                      /\ UNCHANGED <<response, data, i, all_records>>
                 ELSE /\ all_records' = all_records \o PointRecords(i, cd)
                      /\ i' = i + 1
                      /\ UNCHANGED <<response, data, cache, fetch_error,
                                     full_df, pc>>
    /\ UNCHANGED pageVars

\* return pd.DataFrame(all_records)
LoopDone ==
    /\ pc = "loop"
    /\ i = DataListLen(data)
    /\ full_df' = all_records
    /\ cache' = [valid |-> TRUE, value |-> all_records]
    /\ pc' = "returned"
    /\ UNCHANGED <<fetchLocals, fetch_error, pageVars>>

\* `if not full_df.empty` is false: the else branch.
ShowFailure ==
    /\ pc = "returned"
    /\ full_df = <<>>
    /\ page_error' = TRUE
    /\ pc' = "done"
    /\ response' = "none"
    /\ data' = NoData
    /\ data_list' = <<>>
    /\ i' = 0
    /\ all_records' = <<>>
    /\ UNCHANGED <<cache, fetch_error, full_df, time_options, now,
                   current_hour_iso, default_index, selected_time,
                   df_filtered>>

\* time_options, current_hour_iso and default_index.
BuildIndex ==
    /\ pc = "returned"
    /\ full_df # <<>>
    /\ \E clock \in Clock :
         /\ now' = clock
         /\ current_hour_iso' = Strftime(clock)
         /\ default_index' =
                DefaultIndex(Unique(TimeColumn(full_df)), Strftime(clock))
    /\ time_options' = Unique(TimeColumn(full_df))
    /\ pc' = "slider"
    /\ response' = "none"
    /\ data' = NoData
    /\ data_list' = <<>>
    /\ i' = 0
    /\ all_records' = <<>>
    /\ UNCHANGED <<cache, fetch_error, full_df, selected_time, df_filtered,
                   page_error>>

\* The slider returns its default or the option the user moved it to; the
\* frame is filtered and the two columns are added.
Select ==
    /\ pc = "slider"
    /\ \E t \in {time_options[default_index + 1]}
                  \cup {time_options[k] : k \in 1..Len(time_options)} :
         /\ selected_time' = t
         /\ df_filtered' = Encode(SelectRows(full_df, t))
    /\ pc' = "done"
    /\ UNCHANGED <<cache, fetchLocals, fetch_error, full_df, time_options,
                   now, current_hour_iso, default_index, page_error>>

\* Any interaction reruns the script from the top.
Rerun ==
    /\ pc = "done"
    /\ pc' = "idle"
    /\ fetch_error' = FALSE
    /\ full_df' = <<>>
    /\ time_options' = <<>>
    /\ now' = NoTime
    /\ current_hour_iso' = NoTime
    /\ default_index' = 0
    /\ selected_time' = NoTime
    /\ df_filtered' = <<>>
    /\ page_error' = FALSE
    /\ UNCHANGED <<cache, fetchLocals>>

\* ttl=3600: the cache entry expires.
Expire ==
    /\ pc = "idle"
    /\ cache.valid
    /\ cache' = NoCache
    /\ UNCHANGED <<pc, fetchLocals, fetch_error, full_df, pageVars>>

Next ==
    \/ CachedFetch
    \/ Request
    \/ LoopStep
    \/ LoopDone
    \/ ShowFailure
    \/ BuildIndex
    \/ Select
    \/ Rerun
    \/ Expire

Spec == Init /\ [][Next]_vars

\* A response object with one hourly entry: hour 0 at temperature temp.
OneHour(temp) ==
    [hourly |-> "present",
     time |-> [kind |-> "list", val |-> <<0>>],
     temperature_2m |-> [kind |-> "list", val |-> <<temp>>]]

\* Frames the fetch returns for one or two points with one hourly entry
\* each, over the whole temperature range.
EncoderFrames ==
    {PointRecords(0, OneHour(t)) : t \in TempRange}
        \cup {PointRecords(0, OneHour(t)) \o PointRecords(1, OneHour(u)) :
                  t \in TempRange, u \in TempRange}

\* The encoder on every temperature of the range: the script has just
\* received one of EncoderFrames from fetch_forecast_data.
InitEncode ==
    /\ pc = "returned"
    /\ \E df \in EncoderFrames :
         /\ full_df = df
         /\ cache = [valid |-> TRUE, value |-> df]
    /\ response = "none"
    /\ data = NoData
    /\ data_list = <<>>
    /\ i = 0
    /\ all_records = <<>>
    /\ fetch_error = FALSE
    /\ time_options = <<>>
    /\ now = NoTime
    /\ current_hour_iso = NoTime
    /\ default_index = 0
    /\ selected_time = NoTime
    /\ df_filtered = <<>>
    /\ page_error = FALSE

SpecEncode == InitEncode /\ [][Next]_vars

(***************************************************************************)
(* Properties.                                                             *)
(***************************************************************************)

\* The last element the loop read.
LastRead == data_list[Len(data_list)]

\* The fetch body ran and hit one of the failures: transport error, HTTP
\* error status, a missing or malformed hourly field, or more response
\* objects than catalog points.
HitFailure ==
    \/ response \in {"transport_error", "http_error"}
    \/ /\ response = "ok"
       /\ \/ data_list # <<>> /\ Raises(LastRead)
          \/ i < DataListLen(data) /\ i >= NumCities

Mismatched(p) ==
    /\ ~Raises(data_list[p])
    /\ Len(data_list[p].time.val) # Len(data_list[p].temperature_2m.val)

\* C2: if a point's timestamp list and temperature list differ in length,
\* the fetch is a failure: empty record set plus the failure signal.
MismatchIsFailure ==
    (pc = "returned" /\ \E p \in 1..Len(data_list) : Mismatched(p))
        => (fetch_error /\ full_df = <<>>)

\* Number of timestamp entries returned for the points before point p.
RECURSIVE EntriesBefore(_)
EntriesBefore(p) ==
    IF p <= 1
    THEN 0
    ELSE EntriesBefore(p - 1) + Len(data_list[p - 1].time.val)

\* C3: a successful fetch yields exactly one record per (point, returned
\* timestamp entry) pair and no others; the records of the i-th response
\* object carry the i-th catalog point's name and coordinates, point by
\* point in catalog order and in the order of the returned hours.
OneRecordPerTimestampEntry ==
    (pc = "returned" /\ response = "ok" /\ ~fetch_error) =>
        /\ Len(full_df) = EntriesBefore(Len(data_list) + 1)
        /\ \A p \in 1..Len(data_list) :
             \A k \in 1..Len(data_list[p].time.val) :
                LET r == full_df[EntriesBefore(p) + k]
                IN  /\ r.City = city_names[p]
                    /\ r.lat = lats[p]
                    /\ r.lon = lons[p]
                    /\ r.Time = data_list[p].time.val[k]
                    /\ r.Temperature = data_list[p].temperature_2m.val[k]

\* What a response holding the single per-point object cd must produce.
SinglePointResult(cd) ==
    IF Raises(cd)
    THEN [records |-> <<>>, failed |-> TRUE]
    ELSE [records |-> PointRecords(0, cd), failed |-> FALSE]

\* C4: a bare object and a one-element list holding that object produce the
\* same record set: the result is a function of the object alone.
ShapeNormalization ==
    (pc = "returned" /\ response = "ok" /\ (~data.isList \/ data.size = 1))
        => /\ Len(data_list) = 1
           /\ [records |-> full_df, failed |-> fetch_error]
                  = SinglePointResult(data_list[1])

\* C4 witness: a bare object was fetched and produced records.
BareObjectFetched ==
    /\ pc = "returned"
    /\ response = "ok"
    /\ ~data.isList
    /\ Len(full_df) = MaxLen
    /\ ~fetch_error

\* Position of the first record of df whose timestamp is t.
FirstSeen(df, t) ==
    CHOOSE k \in 1..Len(df) :
        /\ df[k].Time = t
        /\ \A j \in 1..(k - 1) : df[j].Time # t

\* C5: the timestamp index holds each distinct timestamp of the records
\* exactly once, in order of first occurrence, and nothing else.
IndexIsFirstSeenOrder ==
    (pc \in {"slider", "done"}) =>
        /\ \A a, b \in 1..Len(time_options) :
             a # b => time_options[a] # time_options[b]
        /\ \A a \in 1..Len(time_options) :
             \E k \in 1..Len(full_df) : full_df[k].Time = time_options[a]
        /\ \A k \in 1..Len(full_df) :
             \E a \in 1..Len(time_options) : time_options[a] = full_df[k].Time
        /\ \A a, b \in 1..Len(time_options) :
             a < b => FirstSeen(full_df, time_options[a])
                          < FirstSeen(full_df, time_options[b])

\* C5 witness: the two points return their hours in opposite orders and the
\* index is in first-seen order, which is not ascending order.
ShuffledIndexBuilt ==
    /\ pc = "slider"
    /\ Len(full_df) = 4
    /\ TimeColumn(full_df) = <<1, 0, 0, 1>>
    /\ time_options = <<1, 0>>

\* The encoded frame without its two derived columns.
Base(df) ==
    [k \in 1..Len(df) |->
        [City |-> df[k].City,
         lat |-> df[k].lat,
         lon |-> df[k].lon,
         Time |-> df[k].Time,
         Temperature |-> df[k].Temperature]]

\* rows is exactly the records of df with timestamp t, in df's order.
IsStableFilter(rows, df, t) ==
    LET hits == {k \in 1..Len(df) : df[k].Time = t}
        Rank(k) == Cardinality({j \in hits : j <= k})
    IN  /\ Len(rows) = Cardinality(hits)
        /\ \A k \in hits : rows[Rank(k)] = df[k]

\* Timestamps a caller may ask for, the hour past the horizon included.
AnyTime == Timestamps \cup {2}

\* C6: the selector returns exactly the records whose timestamp equals T,
\* in their original order, and the empty sequence when T is not in the
\* index.
SelectorIsPureFilter ==
    (pc = "done" /\ ~page_error) =>
        /\ IsStableFilter(Base(df_filtered), full_df, selected_time)
        /\ \A t \in AnyTime :
             /\ IsStableFilter(SelectRows(full_df, t), full_df, t)
             /\ (\A a \in 1..Len(time_options) : time_options[a] # t)
                    => SelectRows(full_df, t) = <<>>

\* C6 witness: one record of each point matches the selected hour, the
\* others do not, and an hour absent from the index selects nothing.
SnapshotSelected ==
    /\ pc = "done"
    /\ TimeColumn(full_df) = <<1, 0, 0, 1>>
    /\ selected_time = 0
    /\ Len(df_filtered) = 2
    /\ df_filtered[1].City = city_names[1]
    /\ df_filtered[2].City = city_names[2]
    /\ SelectRows(full_df, 2) = <<>>

\* The band table of the color rule, lower bounds inclusive.
InBand(b, t) ==
    \/ b = 1 /\ t < 0
    \/ b = 2 /\ 0 <= t /\ t < 10
    \/ b = 3 /\ 10 <= t /\ t < 20
    \/ b = 4 /\ 20 <= t /\ t < 25
    \/ b = 5 /\ 25 <= t

BandColor == <<<<0, 0, 255>>, <<0, 255, 255>>, <<0, 255, 0>>,
               <<255, 165, 0>>, <<255, 0, 0>>>>

ElevationFormula ==
    /\ \A k \in 1..Len(df_filtered) :
         LET t == df_filtered[k].Temperature
             e == df_filtered[k].elevation
         IN  /\ e = (t + 20) * 2000
             /\ t = 0 - 20 => e = 0
             /\ t = 5 => e = 50000
    /\ \A j, k \in 1..Len(df_filtered) :
         df_filtered[j].Temperature = df_filtered[k].Temperature
             => df_filtered[j].elevation = df_filtered[k].elevation

\* C8 witness: a snapshot with temperatures -20 and 5.
ElevationsEncoded ==
    /\ pc = "done"
    /\ Len(df_filtered) = 2
    /\ df_filtered[1].Temperature = 0 - 20
    /\ df_filtered[1].elevation = 0
    /\ df_filtered[2].Temperature = 5
    /\ df_filtered[2].elevation = 50000

\* The hour the clock value lies in.
HourOf(clock) == CHOOSE h \in 0..clock : h * 60 <= clock /\ clock < (h + 1) * 60

\* C9: for a non-empty index the default index is the position of the
\* current hour when the index has it and 0 otherwise, and it is always a
\* position of the index.
DefaultIsCurrentHourOrFirst ==
    (pc \in {"slider", "done"} /\ time_options # <<>>) =>
        /\ default_index \in 0..(Len(time_options) - 1)
        /\ current_hour_iso = HourOf(now)
        /\ IF \E a \in 1..Len(time_options) : time_options[a] = HourOf(now)
           THEN time_options[default_index + 1] = HourOf(now)
           ELSE default_index = 0

\* C9 witness: the current hour, read part-way through the hour, is the
\* second entry of the index.
DefaultAtCurrentHour ==
    /\ pc = "slider"
    /\ now = 59
    /\ time_options = <<1, 0>>
    /\ default_index = 1

\* Rows of the snapshot for t that belong to catalog point p.
SnapshotRowsOf(p, t) ==
    LET rows == SelectRows(full_df, t)
    IN  {k \in 1..Len(rows) : rows[k].City = city_names[p]}

\* C10: the snapshot for T has at most one record per point, and exactly
\* one for each fetched point whose returned timestamps include T.
OneSnapshotRecordPerPoint ==
    (pc = "returned" /\ response = "ok" /\ ~fetch_error) =>
        \A t \in Timestamps :
            \A p \in 1..Len(data_list) :
                /\ Cardinality(SnapshotRowsOf(p, t)) <= 1
                /\ (\E k \in 1..Len(data_list[p].time.val) :
                        data_list[p].time.val[k] = t)
                       => Cardinality(SnapshotRowsOf(p, t)) = 1

====
